---- MODULE Spec2Model ----
(***************************************************************************)
(* A model of app.py: one run of main() of the search assistant page.      *)
(* A run reads the widgets, issues the search requests one after another,  *)
(* calls the language model with the web results and renders the sections. *)
(* Python values are tagged records; Python strings are sequences of       *)
(* one-character strings, so that strip(), lower(), split() and `in` are   *)
(* computed as Python computes them.                                       *)
(***************************************************************************)
EXTENDS Integers, Sequences, FiniteSets, TLC

(***************************************************************************)
(* Python values                                                           *)
(***************************************************************************)
None == [py |-> "None"]
PyStr(s) == [py |-> "str", val |-> s]
PyInt(n) == [py |-> "int", val |-> n]
PyList(l) == [py |-> "list", val |-> l]
\* a dict is a function from key (a TLA+ string) to Python value
PyDict(d) == [py |-> "dict", val |-> d]
EmptyDict == PyDict(<<>>)
\* st.container(): an object without __bool__ or __len__
Container == [py |-> "object"]

IsStr(x) == x.py = "str"
IsDict(x) == x.py = "dict"

\* Python truth value: None, "", 0, [] and {} are false
Truthy(x) ==
    CASE x.py = "None" -> FALSE
      [] x.py = "str" -> Len(x.val) > 0
      [] x.py = "int" -> x.val # 0
      [] x.py = "list" -> Len(x.val) > 0
      [] x.py = "dict" -> DOMAIN x.val # {}
      [] x.py = "object" -> TRUE

\* key in d
HasKey(d, key) == key \in DOMAIN d.val

\* d[key]
Item(d, key) == d.val[key]

\* s[:n]
Take(s, n) == SubSeq(s, 1, IF Len(s) < n THEN Len(s) ELSE n)

(***************************************************************************)
(* Python string methods, on sequences of characters                       *)
(***************************************************************************)
Whitespace == {" ", "\t", "\n", "\r"}

UpperCase == <<"A","B","C","D","E","F","G","H","I","J","K","L","M",
               "N","O","P","Q","R","S","T","U","V","W","X","Y","Z">>
LowerCase == <<"a","b","c","d","e","f","g","h","i","j","k","l","m",
               "n","o","p","q","r","s","t","u","v","w","x","y","z">>

\* the lower-case letter of each upper-case letter
LowerOf ==
    [c \in {UpperCase[i] : i \in 1..Len(UpperCase)} |->
        LowerCase[CHOOSE i \in 1..Len(UpperCase) : UpperCase[i] = c]]

LowerChar(c) == IF c \in DOMAIN LowerOf THEN LowerOf[c] ELSE c

\* s.lower()
Lower(s) == [i \in 1..Len(s) |-> LowerChar(s[i])]

RECURSIVE LStrip(_)
LStrip(s) == IF s # <<>> /\ Head(s) \in Whitespace THEN LStrip(Tail(s)) ELSE s

RECURSIVE RStrip(_)
RStrip(s) ==
    IF s # <<>> /\ s[Len(s)] \in Whitespace
    THEN RStrip(SubSeq(s, 1, Len(s) - 1))
    ELSE s

\* s.strip()
Strip(s) == RStrip(LStrip(s))

\* pat occurs in s at position i
MatchAt(s, pat, i) ==
    /\ i + Len(pat) - 1 <= Len(s)
    /\ \A j \in 1..Len(pat) : s[i + j - 1] = pat[j]

\* pat in s
Contains(pat, s) == \E i \in 1..(Len(s) - Len(pat) + 1) : MatchAt(s, pat, i)

\* the first position from `from` on at which pat occurs in s, 0 if none
NextMatch(s, pat, from) ==
    LET matches == {i \in from..Len(s) : MatchAt(s, pat, i)}
    IN IF matches = {} THEN 0 ELSE CHOOSE i \in matches : \A j \in matches : i <= j

\* s.split(sep): the pieces of s between the occurrences of sep, left to
\* right; start is the first position of the piece at hand
RECURSIVE SplitFrom(_, _, _)
SplitFrom(s, sep, start) ==
    LET i == NextMatch(s, sep, start)
    IN IF i = 0 THEN <<SubSeq(s, start, Len(s))>>
       ELSE <<SubSeq(s, start, i - 1)>> \o SplitFrom(s, sep, i + Len(sep))

Split(s, sep) == SplitFrom(s, sep, 1)

Digits == <<"0","1","2","3","4","5","6","7","8","9">>

\* str(n) for n >= 0
RECURSIVE Decimal(_)
Decimal(n) == IF n < 10 THEN <<Digits[n + 1]>> ELSE Decimal(n \div 10) \o <<Digits[(n % 10) + 1]>>

\* f"{x}": the text of a value inside an f-string
Format(x) ==
    CASE x.py = "str" -> x.val
      [] x.py = "int" -> Decimal(x.val)
      [] x.py = "None" -> <<"N","o","n","e">>

(***************************************************************************)
(* String literals of app.py                                               *)
(***************************************************************************)
\* 'No title' (app.py:188)
NoTitle == <<"N","o"," ","t","i","t","l","e">>
\* 'No link' (app.py:189)
NoLink == <<"N","o"," ","l","i","n","k">>
\* 'No snippet' (app.py:190)
NoSnippet == <<"N","o"," ","s","n","i","p","p","e","t">>
\* '#' (app.py:210)
Hash == <<"#">>
\* 'Unknown Location' (app.py:261)
UnknownLocation == <<"U","n","k","n","o","w","n"," ","L","o","c","a","t","i","o","n">>
\* 'No address available' (app.py:262)
NoAddress == <<"N","o"," ","a","d","d","r","e","s","s"," ","a","v","a","i","l","a","b","l","e">>
\* 'N/A' (app.py:263)
NotApplicable == <<"N","/","A">>
\* '0' (app.py:264)
ZeroText == <<"0">>
\* 'Not available' (app.py:265)
NotAvailable == <<"N","o","t"," ","a","v","a","i","l","a","b","l","e">>
\* 'Location' (app.py:267)
LocationText == <<"L","o","c","a","t","i","o","n">>
\* 'Hours not available' (app.py:271)
HoursNotAvailable == <<"H","o","u","r","s"," ","n","o","t"," ","a","v","a","i","l","a","b","l","e">>
\* 'Unknown Video' (app.py:327)
UnknownVideo == <<"U","n","k","n","o","w","n"," ","V","i","d","e","o">>
\* 'Unknown duration' (app.py:329)
UnknownDuration == <<"U","n","k","n","o","w","n"," ","d","u","r","a","t","i","o","n">>
\* 'Unknown Channel' (app.py:330)
UnknownChannel == <<"U","n","k","n","o","w","n"," ","C","h","a","n","n","e","l">>
\* 'Unknown Product' (app.py:358)
UnknownProduct == <<"U","n","k","n","o","w","n"," ","P","r","o","d","u","c","t">>
\* 'Price not available' (app.py:360)
PriceNotAvailable == <<"P","r","i","c","e"," ","n","o","t"," ","a","v","a","i","l","a","b","l","e">>
\* 'Unknown Source' (app.py:361)
UnknownSource == <<"U","n","k","n","o","w","n"," ","S","o","u","r","c","e">>
\* 'No rating' (app.py:363)
NoRating == <<"N","o"," ","r","a","t","i","n","g">>
\* 'youtube' (app.py:321)
Youtube == <<"y","o","u","t","u","b","e">>
\* 'youtube.com/watch?v=' (app.py:333)
WatchPattern == <<"y","o","u","t","u","b","e",".","c","o","m","/","w","a","t","c","h","?","v","=">>
\* 'v=' (app.py:334)
VEquals == <<"v","=">>
\* '&' (app.py:334)
Ampersand == <<"&">>
\* '...' (app.py:307)
Ellipsis == <<".",".",".">>
\* 'https://www.youtube.com/embed/' (app.py:335)
EmbedPrefix == <<"h","t","t","p","s",":","/","/","w","w","w",".","y","o","u","t","u","b","e",".","c","o","m","/","e","m","b","e","d","/">>
\* '<br>' (app.py:271)
Br == <<"<","b","r",">">>
\* ': ' (app.py:271)
ColonSpace == <<":"," ">>
\* ''
EmptyText == <<>>

(***************************************************************************)
(* Constants of app.py                                                     *)
(***************************************************************************)
SHOPPING_SEARCH_URL == "https://google.serper.dev/shopping"
VIDEO_SEARCH_URL == "https://google.serper.dev/videos"
SEARCH_URL == "https://google.serper.dev/search"
IMAGE_SEARCH_URL == "https://google.serper.dev/images"
MAPS_SEARCH_URL == "https://google.serper.dev/maps"

\* response.status_code == 200
StatusOK == 200
\* search_results["organic"][:5]
MaxOrganic == 5
\* maps_results["places"][:5]
MaxPlaces == 5
\* image_results["images"][:10]
MaxImages == 10
\* youtube_videos[:6]
MaxVideos == 6
\* products[:10]
MaxProducts == 10
\* st.columns(5) of the image grid, st.columns(3) of the videos, st.columns(5) of the products
ImageCols == 5
VideoCols == 3
ProductCols == 5

\* the search_type values of serper_search; the first is the default
Verticals == {"search", "maps", "images", "videos", "shopping"}
\* the four sections with a checkbox
Optional == {"maps", "images", "videos", "shopping"}
\* the calls for maps and images in the other order
FetchOrder_Swapped == <<"search", "images", "maps", "videos", "shopping">>

\* the order of the serper_search calls in main()
FetchOrder == <<"search", "maps", "images", "videos", "shopping">>

\* serper_search: the endpoint of a search type
UrlOf(search_type) ==
    IF search_type = "shopping" THEN SHOPPING_SEARCH_URL
    ELSE IF search_type = "videos" THEN VIDEO_SEARCH_URL
    ELSE IF search_type = "images" THEN IMAGE_SEARCH_URL
    ELSE IF search_type = "maps" THEN MAPS_SEARCH_URL
    ELSE SEARCH_URL

\* a serper_search that returns the document whatever the status code
Returned_AnyStatus(status_code, json) == json

\* serper_search: the value returned for a response
Returned(status_code, json) == IF status_code = StatusOK THEN json ELSE None

\* a lookup written d.get(key), which yields None for an absent key
Get_NoDefault(d, key, default) == IF HasKey(d, key) THEN Item(d, key) ELSE None

\* d.get(key, default)
Get(d, key, default) == IF HasKey(d, key) THEN Item(d, key) ELSE default

\* the top-level array key of each vertical's response, as main() reads it
ArrayKey(v) ==
    CASE v = "search" -> "organic"
      [] v = "maps" -> "places"
      [] v = "images" -> "images"
      [] v = "videos" -> "videos"
      [] v = "shopping" -> "shopping"

(***************************************************************************)
(* The responses of the search API the model draws from.  Every vertical   *)
(* answers with a status code and a JSON document; the documents below     *)
(* cover a missing array key, an empty array, a short array and an array   *)
(* longer than the section's cap, with items that lack some or all fields. *)
(***************************************************************************)
\* how many items beyond a section's cap the longest response array holds
MaxExtra == 1

Statuses == {200, 500}

Text(prefix, i) == prefix \o Decimal(i)
\* 'https://www.youtube.com/watch?v=' (a YouTube watch link)
WatchUrl == <<"h","t","t","p","s",":","/","/","w","w","w",".","y","o","u","t","u","b","e",".","c","o","m","/","w","a","t","c","h","?","v","=">>
\* 'https://youtu.be/' (a YouTube short link)
ShortUrl == <<"h","t","t","p","s",":","/","/","y","o","u","t","u",".","b","e","/">>
\* '&t=1' (a further URL parameter)
TimeParam == <<"&","t","=","1">>

OrganicItem(i) ==
    CASE i % 3 = 1 -> PyDict([title |-> PyStr(Text(<<"T">>, i)),
                              link |-> PyStr(Text(<<"L">>, i)),
                              snippet |-> PyStr(Text(<<"S">>, i))])
      [] i % 3 = 2 -> PyDict([title |-> PyStr(Text(<<"T">>, i)),
                              link |-> PyStr(Text(<<"L">>, i))])
      [] i % 3 = 0 -> PyDict([snippet |-> PyStr(Text(<<"S">>, i))])

OpeningHours(i) == PyDict([day \in {<<"M","o","n">>} |-> PyStr(Text(<<"9","-">>, i))])

PlaceItem(i) ==
    CASE i % 3 = 1 -> PyDict([title |-> PyStr(Text(<<"P">>, i)),
                              address |-> PyStr(Text(<<"A">>, i)),
                              rating |-> PyInt(4),
                              ratingCount |-> PyInt(10 + i),
                              phoneNumber |-> PyStr(Text(<<"+">>, i)),
                              website |-> PyStr(Text(<<"W">>, i)),
                              type |-> PyStr(<<"C","a","f","e">>),
                              openingHours |-> OpeningHours(i),
                              latitude |-> PyInt(10 + i),
                              longitude |-> PyInt(20 + i)])
      [] i % 3 = 2 -> PyDict([title |-> PyStr(Text(<<"P">>, i)),
                              latitude |-> PyInt(10 + i),
                              longitude |-> PyInt(20 + i)])
      [] i % 3 = 0 -> EmptyDict

ImageItem(i) ==
    CASE i % 3 = 1 -> PyDict([imageUrl |-> PyStr(Text(<<"U">>, i)),
                              title |-> PyStr(Text(<<"I">>, i) \o Ellipsis \o <<"x">>)])
      [] i % 3 = 2 -> PyDict([imageUrl |-> PyStr(Text(<<"U">>, i)),
                              title |-> PyStr(Text(<<"I">>, i))])
      [] i % 3 = 0 -> EmptyDict

\* "yt": every entry is a YouTube watch link; "mixed": other sources, short
\* links and missing fields in between; "other": no YouTube entry at all
VideoItem(kind, i) ==
    CASE kind = "yt" /\ i % 2 = 1 ->
             PyDict([source |-> PyStr(<<"Y","o","u","T","u","b","e">>),
                     link |-> PyStr(Text(WatchUrl, i)),
                     title |-> PyStr(Text(<<"V">>, i)),
                     channel |-> PyStr(Text(<<"C">>, i)),
                     duration |-> PyStr(Text(<<"D">>, i))])
      [] kind = "yt" /\ i % 2 = 0 ->
             PyDict([source |-> PyStr(Youtube),
                     link |-> PyStr(Text(WatchUrl, i))])
      [] kind = "mixed" /\ i % 3 = 1 ->
             PyDict([source |-> PyStr(<<"V","i","m","e","o">>),
                     link |-> PyStr(Text(WatchUrl, i)),
                     title |-> PyStr(Text(<<"V">>, i))])
      [] kind = "mixed" /\ i % 3 = 2 ->
             PyDict([source |-> PyStr(<<" ">> \o Youtube \o <<" ">>),
                     link |-> PyStr(Text(WatchUrl, i) \o TimeParam),
                     channel |-> PyStr(Text(<<"C">>, i))])
      [] kind = "mixed" /\ i % 6 = 0 ->
             PyDict([source |-> PyStr(<<"Y","O","U","T","U","B","E">>),
                     link |-> PyStr(Text(ShortUrl, i)),
                     title |-> PyStr(Text(<<"V">>, i))])
      [] kind = "mixed" /\ i % 6 = 3 ->
             PyDict([source |-> PyStr(Youtube),
                     title |-> PyStr(Text(<<"V">>, i))])
      [] kind = "other" /\ i % 2 = 1 ->
             PyDict([source |-> PyStr(<<"y","o","u"," ","t","u","b","e">>),
                     link |-> PyStr(Text(WatchUrl, i))])
      [] kind = "other" /\ i % 2 = 0 ->
             PyDict([link |-> PyStr(Text(WatchUrl, i))])

ProductItem(i) ==
    CASE i % 3 = 1 -> PyDict([title |-> PyStr(Text(<<"G">>, i)),
                              link |-> PyStr(Text(<<"L">>, i)),
                              price |-> PyStr(Text(<<"$">>, i)),
                              source |-> PyStr(Text(<<"M">>, i)),
                              imageUrl |-> PyStr(Text(<<"U">>, i)),
                              rating |-> PyInt(5)])
      [] i % 3 = 2 -> PyDict([title |-> PyStr(Text(<<"G">>, i))])
      [] i % 3 = 0 -> EmptyDict

\* a document that is not empty and lacks every array key
NoArrayKey == PyDict([credits |-> PyInt(1)])

OrganicList(n) == PyList([i \in 1..n |-> OrganicItem(i)])
\* off shifts the pattern, so that the first place is not always a full one
PlaceList(n, off) == PyList([i \in 1..n |-> PlaceItem(i + off)])
ImageList(n) == PyList([i \in 1..n |-> ImageItem(i)])
VideoList(kind, n) == PyList([i \in 1..n |-> VideoItem(kind, i)])
ProductList(n) == PyList([i \in 1..n |-> ProductItem(i)])

\* the empty document, which is false as a condition, is among the answers
\* of the web search and of maps
Bodies(v) ==
    {NoArrayKey} \cup (IF v \in {"search", "maps"} THEN {EmptyDict} ELSE {}) \cup
    CASE v = "search" ->
             {PyDict([organic |-> OrganicList(n)]) : n \in {0, 2, MaxOrganic + MaxExtra}}
      [] v = "maps" ->
             {PyDict([places |-> PlaceList(0, 0)]),
              PyDict([places |-> PlaceList(3, 2)]),
              PyDict([places |-> PlaceList(MaxPlaces + MaxExtra, 0)])}
      [] v = "images" ->
             {PyDict([images |-> ImageList(n)]) : n \in {0, 2, MaxImages + MaxExtra}}
      [] v = "videos" ->
             {PyDict([videos |-> VideoList("yt", 0)]),
              PyDict([videos |-> VideoList("yt", MaxVideos + MaxExtra)]),
              PyDict([videos |-> VideoList("mixed", 2 * MaxVideos + MaxExtra)]),
              PyDict([videos |-> VideoList("other", 2)])}
      [] v = "shopping" ->
             {PyDict([shopping |-> ProductList(n)]) : n \in {0, 2, MaxProducts + MaxExtra}}

\* what the language model answers with (response.content)
Answers == {PyStr(<<"a","n","s","w","e","r">>)}

\* the text of the query box
Queries == {<<>>, <<"q">>}

(***************************************************************************)
(* The AI Answer section: the prompt, the answer and the sources           *)
(***************************************************************************)
\* the organic results without the [:5] slice
OrganicTop_All(search_results) == Item(search_results, "organic").val

\* search_results["organic"][:5], of the prompt and of the Sources list
OrganicTop(search_results) == Take(Item(search_results, "organic").val, MaxOrganic)

\* search_content: one Title/Link/Snippet block per result
SearchContent(search_results) ==
    IF Truthy(search_results) /\ HasKey(search_results, "organic")
    THEN LET top == OrganicTop(search_results)
         IN [i \in 1..Len(top) |->
                [Title |-> Format(Get(top[i], "title", PyStr(NoTitle))),
                 Link |-> Format(Get(top[i], "link", PyStr(NoLink))),
                 Snippet |-> Format(Get(top[i], "snippet", PyStr(NoSnippet)))]]
    ELSE <<>>

\* prompt: the fixed text around the query and search_content
Prompt(query, results) ==
    [query |-> query, search_content |-> SearchContent(results["search"])]

\* st.markdown("### AI Answer")
AnswerHeading == [sec |-> "search", kind |-> "heading", text |-> "### AI Answer"]

\* st.markdown(response.content)
AnswerBody(content) == [sec |-> "search", kind |-> "answer", content |-> content]

\* the Sources expander
Sources(search_results) ==
    IF Truthy(search_results) /\ HasKey(search_results, "organic")
    THEN LET top == OrganicTop(search_results)
         IN <<[sec |-> "search", kind |-> "sources",
               entries |-> [i \in 1..Len(top) |->
                   [n |-> i,
                    title |-> Format(Get(top[i], "title", PyStr(NoTitle))),
                    link |-> Format(Get(top[i], "link", PyStr(Hash))),
                    snippet |-> Format(Get(top[i], "snippet", PyStr(NoSnippet)))]]]>>
    ELSE <<>>

(***************************************************************************)
(* The four optional sections.  A section is the sequence of elements it   *)
(* puts on the page, and whether rendering it raised.                      *)
(***************************************************************************)
Heading(v) ==
    [sec |-> v, kind |-> "heading",
     text |-> CASE v = "maps" -> "### Map Results"
                [] v = "images" -> "### Image Results"
                [] v = "videos" -> "### Related Videos"
                [] v = "shopping" -> "### Related Products"]

\* st.info(text)
Info(v, text) == [sec |-> v, kind |-> "info", text |-> text]

\* a guard that reads the shopping checkbox and container in the videos block
Enabled_CopyPaste(v, show, containers) ==
    IF v = "videos"
    THEN show["shopping"] /\ Truthy(containers["shopping"])
    ELSE show[v] /\ Truthy(containers[v])

\* if show_x and x_container
Enabled(v, show, containers) == show[v] /\ Truthy(containers[v])

Rendered(elements) == [out |-> elements, raised |-> FALSE]
Raised(elements) == [out |-> elements, raised |-> TRUE]

\* "<br>".join(f"{day}: {time}" for day, time in hours.items())
RECURSIVE JoinHours(_, _)
JoinHours(hours, days) ==
    IF days = {} THEN <<>>
    ELSE LET day == CHOOSE d \in days : TRUE
             rest == days \ {day}
         IN day \o ColonSpace \o Format(hours[day])
                \o (IF rest = {} THEN <<>> ELSE Br \o JoinHours(hours, rest))

HoursText(place) ==
    LET hours == Get(place, "openingHours", EmptyDict)
    IN IF Truthy(hours) THEN JoinHours(hours.val, DOMAIN hours.val) ELSE HoursNotAvailable

\* map_center
MapCenter(first_place) ==
    <<Get(first_place, "latitude", PyInt(0)), Get(first_place, "longitude", PyInt(0))>>

HasMarker(place) ==
    Truthy(Get(place, "latitude", None)) /\ Truthy(Get(place, "longitude", None))

\* the folium.Marker of a place
Marker(place) ==
    [location |-> <<Get(place, "latitude", None), Get(place, "longitude", None)>>,
     popup |-> [title |-> Format(Get(place, "title", PyStr(UnknownLocation))),
                address |-> Format(Get(place, "address", PyStr(NoAddress))),
                rating |-> Format(Get(place, "rating", PyStr(NotApplicable)))],
     tooltip |-> Get(place, "title", PyStr(UnknownLocation))]

\* folium_static(m): the map with a marker for every place that has coordinates
MapElement(places) ==
    LET marked == SelectSeq(places, HasMarker)
    IN [sec |-> "maps", kind |-> "map", center |-> MapCenter(places[1]),
        markers |-> [i \in 1..Len(marked) |-> Marker(marked[i])]]

\* the place-card of a place
PlaceCard(place) ==
    [sec |-> "maps", kind |-> "card",
     title |-> Format(Get(place, "title", PyStr(UnknownLocation))),
     address |-> Format(Get(place, "address", PyStr(NoAddress))),
     rating |-> Format(Get(place, "rating", PyStr(NotApplicable))),
     rating_count |-> Format(Get(place, "ratingCount", PyStr(ZeroText))),
     phone |-> Format(Get(place, "phoneNumber", PyStr(NotAvailable))),
     website |-> Format(Get(place, "website", PyStr(Hash))),
     place_type |-> Format(Get(place, "type", PyStr(LocationText))),
     hours_text |-> HoursText(place)]

MapsSection(show, containers, results) ==
    LET maps_results == results["maps"]
    IN IF Enabled("maps", show, containers)
       THEN IF /\ Truthy(maps_results)
               /\ HasKey(maps_results, "places")
               /\ Len(Item(maps_results, "places").val) > 0
            THEN LET places == Item(maps_results, "places").val
                     shown == Take(places, MaxPlaces)
                 IN Rendered(<<Heading("maps"), MapElement(places)>>
                             \o [i \in 1..Len(shown) |-> PlaceCard(shown[i])])
            ELSE Rendered(<<Heading("maps"),
                            Info("maps", "No map results available for this query.")>>)
       ELSE Rendered(<<>>)

\* caption=img.get("title", "").split("...")[0] if img.get("title") else ""
ImageCaption(img) ==
    IF Truthy(Get(img, "title", None))
    THEN Split(Get(img, "title", PyStr(EmptyText)).val, Ellipsis)[1]
    ELSE EmptyText

\* .split() on a title that is no string raises
ImageRaises(img) ==
    Truthy(Get(img, "title", None)) /\ ~IsStr(Get(img, "title", PyStr(EmptyText)))

\* st.image in column i % 5 (i counts from 0)
ImageElement(img, i) ==
    [sec |-> "images", kind |-> "image", col |-> i % ImageCols,
     image |-> Get(img, "imageUrl", PyStr(EmptyText)),
     caption |-> ImageCaption(img)]

\* the number of leading elements of s for which Bad is false
GoodPrefix(s, Bad(_)) ==
    IF \E i \in 1..Len(s) : Bad(s[i])
    THEN (CHOOSE i \in 1..Len(s) : Bad(s[i]) /\ \A j \in 1..(i - 1) : ~Bad(s[j])) - 1
    ELSE Len(s)

ImagesSection(show, containers, results) ==
    LET image_results == results["images"]
    IN IF Enabled("images", show, containers)
       THEN IF Truthy(image_results) /\ HasKey(image_results, "images")
            THEN LET images == Take(Item(image_results, "images").val, MaxImages)
                     done == GoodPrefix(images, ImageRaises)
                     out == <<Heading("images")>>
                            \o [i \in 1..done |-> ImageElement(images[i], i - 1)]
                 IN IF done < Len(images) THEN Raised(out) ELSE Rendered(out)
            ELSE Rendered(<<Heading("images"),
                            Info("images", "No image results available for this query.")>>)
       ELSE Rendered(<<>>)

\* the source test without .strip()
IsYoutube_NoStrip(video) == Lower(Get(video, "source", PyStr(EmptyText)).val) = Youtube

\* video.get("source", "").strip().lower() == "youtube"
IsYoutube(video) == Lower(Strip(Get(video, "source", PyStr(EmptyText)).val)) = Youtube

\* .strip() on a source that is no string raises
SourceRaises(video) == ~IsStr(Get(video, "source", PyStr(EmptyText)))

\* `in link` on a link that is no string raises
LinkRaises(video) == ~IsStr(Get(video, "link", PyStr(Hash)))

\* "youtube.com/watch?v=" in link
IsWatchLink(video) == Contains(WatchPattern, Get(video, "link", PyStr(Hash)).val)

\* embed_url: link.split("v=")[-1].split("&")[0] after the embed prefix
EmbedUrl(link) ==
    LET pieces == Split(link, VEquals)
        video_id == Split(pieces[Len(pieces)], Ampersand)[1]
    IN EmbedPrefix \o video_id

\* st.video and the caption in column idx % 3 (idx counts from 0)
VideoElement(video, idx) ==
    [sec |-> "videos", kind |-> "video", col |-> idx % VideoCols,
     embed_url |-> EmbedUrl(Get(video, "link", PyStr(Hash)).val),
     title |-> Format(Get(video, "title", PyStr(UnknownVideo))),
     channel |-> Format(Get(video, "channel", PyStr(UnknownChannel))),
     duration |-> Format(Get(video, "duration", PyStr(UnknownDuration)))]

\* the loop over youtube_videos[:6]: entries without a watch link are skipped
RECURSIVE VideoLoop(_, _)
VideoLoop(videos, idx) ==
    IF idx >= Len(videos) THEN <<>>
    ELSE (IF IsWatchLink(videos[idx + 1])
          THEN <<VideoElement(videos[idx + 1], idx)>>
          ELSE <<>>) \o VideoLoop(videos, idx + 1)

VideosSection(show, containers, results) ==
    LET video_results == results["videos"]
    IN IF Enabled("videos", show, containers)
       THEN IF Truthy(video_results) /\ HasKey(video_results, "videos")
            THEN LET videos == Item(video_results, "videos").val
                 IN IF \E i \in 1..Len(videos) : SourceRaises(videos[i])
                    THEN Raised(<<Heading("videos")>>)
                    ELSE LET youtube_videos == SelectSeq(videos, IsYoutube)
                             top == Take(youtube_videos, MaxVideos)
                             done == GoodPrefix(top, LinkRaises)
                         IN IF youtube_videos # <<>>
                            THEN IF done < Len(top)
                                 THEN Raised(<<Heading("videos")>>
                                             \o VideoLoop(Take(top, done), 0))
                                 ELSE Rendered(<<Heading("videos")>> \o VideoLoop(top, 0))
                            ELSE Rendered(<<Heading("videos"),
                                     Info("videos", "No relevant videos found for this query.")>>)
            ELSE Rendered(<<Heading("videos"), Info("videos", "No video results available.")>>)
       ELSE Rendered(<<>>)

\* the product-card in column idx % 5 (idx counts from 0)
ProductCard(product, idx) ==
    [sec |-> "shopping", kind |-> "product", col |-> idx % ProductCols,
     title |-> Format(Get(product, "title", PyStr(UnknownProduct))),
     link |-> Format(Get(product, "link", PyStr(Hash))),
     price |-> Format(Get(product, "price", PyStr(PriceNotAvailable))),
     source |-> Format(Get(product, "source", PyStr(UnknownSource))),
     image_url |-> Format(Get(product, "imageUrl", PyStr(EmptyText))),
     rating |-> Format(Get(product, "rating", PyStr(NoRating)))]

ShoppingSection(show, containers, results) ==
    LET shopping_results == results["shopping"]
    IN IF Enabled("shopping", show, containers)
       THEN IF Truthy(shopping_results) /\ HasKey(shopping_results, "shopping")
            THEN LET products == Take(Item(shopping_results, "shopping").val, MaxProducts)
                 IN Rendered(<<Heading("shopping")>>
                             \o [idx \in 1..Len(products) |-> ProductCard(products[idx], idx - 1)])
            ELSE Rendered(<<Heading("shopping"),
                            Info("shopping", "No shopping results available for this query.")>>)
       ELSE Rendered(<<>>)

\* the order of the four section blocks in main()
SectionOrder == <<"maps", "images", "videos", "shopping">>

Section(v, show, containers, results) ==
    CASE v = "maps" -> MapsSection(show, containers, results)
      [] v = "images" -> ImagesSection(show, containers, results)
      [] v = "videos" -> VideosSection(show, containers, results)
      [] v = "shopping" -> ShoppingSection(show, containers, results)

\* the section blocks from the k-th on, one after another; a block that
\* raises ends the page
RECURSIVE SectionsFrom(_, _, _, _)
SectionsFrom(k, show, containers, results) ==
    IF k > Len(SectionOrder) THEN Rendered(<<>>)
    ELSE LET this == Section(SectionOrder[k], show, containers, results)
         IN IF this.raised THEN this
            ELSE LET rest == SectionsFrom(k + 1, show, containers, results)
                 IN [out |-> this.out \o rest.out, raised |-> rest.raised]

\* what main() renders once assistant.run has returned: the answer, the
\* sources and the section blocks
AfterAnswer(content, show, containers, results) ==
    LET sections == SectionsFrom(1, show, containers, results)
    IN [out |-> <<AnswerBody(content)>> \o Sources(results["search"]) \o sections.out,
        raised |-> sections.raised]

(***************************************************************************)
(* One run of main()                                                       *)
(***************************************************************************)
VARIABLES
    show,          \* the four checkboxes: show_maps, show_images, show_videos, show_shopping
    search_button, \* whether the Search button was clicked
    query,         \* the text of the query box
    pc,            \* where main() is
    cur,           \* the index in FetchOrder of the serper_search call at hand, or 0
    containers,    \* maps_container, image_container, video_container, shopping_container
    progress,      \* whether the progress placeholder shows its message
    results,       \* search_results, maps_results, image_results, video_results, shopping_results
    status,        \* the status code of each vertical's response, 0 without one
    posts,         \* the requests.post calls made, in order
    llm_calls,     \* the prompts assistant.run was called with, in order
    page,          \* the elements rendered in the result area, in order
    log            \* the calls and returns of the external services, in order

vars == <<show, search_button, query, pc, cur, containers, progress, results, status,
          posts, llm_calls, page, log>>

Event(e, v) == [e |-> e, v |-> v]

Init ==
    /\ show \in [Optional -> BOOLEAN]
    /\ search_button \in BOOLEAN
    /\ query \in Queries
    /\ pc = "top"
    /\ cur = 0
    /\ containers = [v \in Optional |-> None]
    /\ progress = FALSE
    /\ results = [v \in Verticals |-> None]
    /\ status = [v \in Verticals |-> 0]
    /\ posts = <<>>
    /\ llm_calls = <<>>
    /\ page = <<>>
    /\ log = <<>>

\* a guard that forgets the query
StartGuard_ButtonOnly == search_button

\* if search_button and query
StartGuard == search_button /\ Truthy(PyStr(query))

\* the guard is false: main() returns with nothing searched or rendered
NoSearch ==
    /\ pc = "top"
    /\ ~StartGuard
    /\ pc' = "idle"
    /\ UNCHANGED <<show, search_button, query, cur, containers, progress, results, status,
                   posts, llm_calls, page, log>>

\* the container condition inverted
ContainerFor_Inverted(v) == IF show[v] THEN None ELSE Container

\* st.container() if show_x else None
ContainerFor(v) == IF show[v] THEN Container ELSE None

\* the guard is true: the progress message and the containers
StartSearch ==
    /\ pc = "top"
    /\ StartGuard
    /\ progress' = TRUE
    /\ containers' = [v \in Optional |-> ContainerFor(v)]
    /\ pc' = "fetch"
    /\ cur' = 1
    /\ UNCHANGED <<show, search_button, query, results, status, posts, llm_calls, page, log>>

\* every vertical fetched whatever the checkboxes
Wanted_All(v) == TRUE

\* serper_search(query) always; serper_search(query, search_type=x) if show_x
Wanted(v) == IF v = "search" THEN TRUE ELSE show[v]

\* after the call at hand: the next call, or the AI Answer block
Advance ==
    IF cur < Len(FetchOrder)
    THEN pc' = "fetch" /\ cur' = cur + 1
    ELSE pc' = "answer" /\ cur' = 0

\* serper_search up to requests.post: one POST to the endpoint of the search type
SendRequest ==
    /\ pc = "fetch"
    /\ Wanted(FetchOrder[cur])
    /\ posts' = Append(posts, [url |-> UrlOf(FetchOrder[cur]), q |-> query])
    /\ log' = Append(log, Event("post", FetchOrder[cur]))
    /\ pc' = "await"
    /\ UNCHANGED <<show, search_button, query, cur, containers, progress, results, status,
                   llm_calls, page>>

\* x_results = ... if show_x else None, with show_x false
SkipRequest ==
    /\ pc = "fetch"
    /\ ~Wanted(FetchOrder[cur])
    /\ results' = [results EXCEPT ![FetchOrder[cur]] = None]
    /\ Advance
    /\ UNCHANGED <<show, search_button, query, containers, progress, status, posts,
                   llm_calls, page, log>>

\* requests.post returns; serper_search returns the JSON document or None
ReceiveResponse ==
    /\ pc = "await"
    /\ \E status_code \in Statuses, json \in Bodies(FetchOrder[cur]) :
           /\ status' = [status EXCEPT ![FetchOrder[cur]] = status_code]
           /\ results' = [results EXCEPT ![FetchOrder[cur]] = Returned(status_code, json)]
    /\ log' = Append(log, Event("response", FetchOrder[cur]))
    /\ Advance
    /\ UNCHANGED <<show, search_button, query, containers, progress, posts, llm_calls, page>>

\* progress_placeholder.empty(), the heading, the prompt and the call of assistant.run
CallModel ==
    /\ pc = "answer"
    /\ progress' = FALSE
    /\ page' = Append(page, AnswerHeading)
    /\ llm_calls' = Append(llm_calls, Prompt(query, results))
    /\ log' = Append(log, Event("llm_call", "search"))
    /\ pc' = "llm"
    /\ UNCHANGED <<show, search_button, query, cur, containers, results, status, posts>>

\* assistant.run returns: the answer, the sources and the four section blocks
ModelReturns ==
    /\ pc = "llm"
    /\ \E content \in Answers :
           LET rest == AfterAnswer(content, show, containers, results)
           IN /\ page' = page \o rest.out
              /\ pc' = IF rest.raised THEN "render_raised" ELSE "done"
    /\ log' = Append(log, Event("llm_return", "search"))
    /\ UNCHANGED <<show, search_button, query, cur, containers, progress, results, status,
                   posts, llm_calls>>

\* an exception of assistant.run caught and ignored: the sections still render
ModelRaises_Caught ==
    /\ pc = "llm"
    /\ pc' = "llm_raised"
    /\ page' = page \o SectionsFrom(1, show, containers, results).out
    /\ log' = Append(log, Event("llm_raise", "search"))
    /\ UNCHANGED <<show, search_button, query, cur, containers, progress, results, status,
                   posts, llm_calls>>

\* assistant.run raises: nothing catches it, main() ends there
ModelRaises ==
    /\ pc = "llm"
    /\ pc' = "llm_raised"
    /\ log' = Append(log, Event("llm_raise", "search"))
    /\ UNCHANGED <<show, search_button, query, cur, containers, progress, results, status,
                   posts, llm_calls, page>>

Next ==
    \/ NoSearch
    \/ StartSearch
    \/ SendRequest
    \/ SkipRequest
    \/ ReceiveResponse
    \/ CallModel
    \/ ModelReturns
    \/ ModelRaises

Spec == Init /\ [][Next]_vars

(***************************************************************************)
(* Properties                                                              *)
(***************************************************************************)
Min(a, b) == IF a < b THEN a ELSE b

\* the elements of section v on a page, in order
SectionOf(p, v) == SelectSeq(p, LAMBDA el : el.sec = v)

\* the elements of a kind among a sequence of elements
OfKind(els, kind) == SelectSeq(els, LAMBDA el : el.kind = kind)

\* the result items of a section: everything but its heading and its message
ItemsOf(els) == SelectSeq(els, LAMBDA el : el.kind \notin {"heading", "info"})

\* the array of vertical v in its response, empty without one
ArrayOf(v) ==
    IF IsDict(results[v]) /\ HasKey(results[v], ArrayKey(v))
    THEN Item(results[v], ArrayKey(v)).val
    ELSE <<>>

\* the search phase of the run is over
Fetched == pc \in {"answer", "llm", "done", "llm_raised", "render_raised"}

\* C1: in a search run whose language-model call succeeds, each optional
\* section is on the page if and only if its checkbox is enabled, and the
\* AI Answer section (heading and answer) is on the page whatever the toggles.
C1_SectionsIffEnabled ==
    pc = "done" =>
        /\ \A v \in Optional :
               /\ show[v] <=> SectionOf(page, v) # <<>>
               /\ show[v] => Head(SectionOf(page, v)).kind = "heading"
        /\ Head(page) = AnswerHeading
        /\ Len(OfKind(SectionOf(page, "search"), "answer")) = 1

C1_Witness ==
    /\ pc = "done"
    /\ show["maps"] /\ ~show["images"] /\ show["videos"] /\ ~show["shopping"]
    /\ SectionOf(page, "maps") # <<>> /\ SectionOf(page, "images") = <<>>

\* C2: the POSTs of a search run are the web request and one request per
\* enabled optional vertical, each to the endpoint of its own vertical; a
\* disabled vertical gets none, so there are 1 + (enabled toggles) POSTs,
\* never more than five.
C2_PostsMatchToggles ==
    /\ Len(posts) <= 5
    /\ \A i \in 1..Len(posts) : posts[i].q = query
    /\ Fetched =>
           /\ Len(posts) = 1 + Cardinality({v \in Optional : show[v]})
           /\ \A v \in Verticals :
                  Cardinality({i \in 1..Len(posts) :
                      posts[i].url = "https://google.serper.dev/" \o v})
                  = IF v = "search" \/ show[v] THEN 1 ELSE 0

C2_Witness ==
    /\ pc = "done"
    /\ Len(posts) = 3
    /\ show["images"] /\ show["shopping"]

\* C7: when assistant.run raises, nothing catches it: the page keeps only
\* what was rendered before the call (the AI Answer heading), with no answer,
\* no Sources list and no element of any optional section, even for enabled
\* verticals whose requests succeeded.
C7_ModelFailureEndsRender ==
    pc = "llm_raised" =>
        /\ page = <<AnswerHeading>>
        /\ Len(llm_calls) = 1
        /\ ~ENABLED Next

C7_Witness ==
    /\ pc = "llm_raised"
    /\ show["maps"] /\ status["maps"] = 200 /\ Len(ArrayOf("maps")) > 0
    /\ show["shopping"] /\ status["shopping"] = 200 /\ Len(ArrayOf("shopping")) > 0
    /\ Len(ArrayOf("search")) > 0

\* C9: without a click of the Search button, or with an empty query, no
\* search request is issued, the language model is not called and nothing is
\* rendered, whatever the toggles are.
C9_NoSearchWithoutClickAndQuery ==
    (~search_button \/ query = <<>>) =>
        /\ posts = <<>>
        /\ llm_calls = <<>>
        /\ page = <<>>
        /\ log = <<>>
        /\ pc \in {"top", "idle"}

C9_Witness ==
    /\ pc = "idle"
    /\ search_button /\ query = <<>>
    /\ \A v \in Optional : show[v]

\* vertical v got a response that is not 200
NotOk(v) == status[v] \notin {0, 200}

\* C3 as stated: every section of the page, the AI Answer section included,
\* whose request got a non-200 response shows an empty-state message instead
\* of results.
C3_EverySectionShowsMessage ==
    pc = "done" =>
        \A v \in Verticals :
            NotOk(v) =>
                /\ OfKind(SectionOf(page, v), "info") # <<>>
                /\ ItemsOf(SectionOf(page, v)) = <<>>

\* C3, amended: a non-200 response makes serper_search return None after
\* its single POST; when the language-model call returns, each enabled
\* optional section whose request got a non-200 response shows its heading
\* and its empty-state message and nothing else; the AI Answer section has
\* no empty-state message: after a non-200 web response the model is called
\* with an empty search-results part and the answer is shown without Sources.
C3_NonOkIsNoData ==
    /\ \A v \in Verticals :
           /\ NotOk(v) => results[v] = None
           /\ Cardinality({i \in 1..Len(posts) : posts[i].url = UrlOf(v)}) <= 1
    /\ pc = "done" =>
           /\ \A v \in Optional :
                  NotOk(v) =>
                      /\ Len(SectionOf(page, v)) = 2
                      /\ SectionOf(page, v)[1].kind = "heading"
                      /\ SectionOf(page, v)[2].kind = "info"
           /\ NotOk("search") =>
                  /\ llm_calls[1].search_content = <<>>
                  /\ Len(SectionOf(page, "search")) = 2
                  /\ SectionOf(page, "search")[1] = AnswerHeading
                  /\ SectionOf(page, "search")[2].kind = "answer"

C3_Witness ==
    /\ pc = "done"
    /\ NotOk("search") /\ NotOk("videos") /\ NotOk("maps")
    /\ status["images"] = 200 /\ Len(ArrayOf("images")) > 0

\* the first n entries of the web response's organic array (all of them
\* when there are fewer)
TopOrganic(n) == SubSeq(ArrayOf("search"), 1, Min(n, Len(ArrayOf("search"))))

\* text is what the entry shows for a field of the result it was made from
ShowsField(result, field, text) == HasKey(result, field) => Item(result, field).val = text

\* C8: the language model is called once per search run, with one prompt
\* that embeds the query and the first five organic results in response
\* order (all when fewer); without a web response or an organic key the
\* call is still made, with an empty search-results part; the Sources list
\* is rendered only when organic is present, and lists the same entries.
C8_OnePromptTopFive ==
    /\ Len(llm_calls) <= 1
    /\ pc \in {"llm", "done", "llm_raised"} =>
           /\ Len(llm_calls) = 1
           /\ llm_calls[1].query = query
           /\ Len(llm_calls[1].search_content) = Len(TopOrganic(5))
           /\ \A k \in 1..Len(TopOrganic(5)) :
                  /\ ShowsField(TopOrganic(5)[k], "title", llm_calls[1].search_content[k].Title)
                  /\ ShowsField(TopOrganic(5)[k], "link", llm_calls[1].search_content[k].Link)
                  /\ ShowsField(TopOrganic(5)[k], "snippet", llm_calls[1].search_content[k].Snippet)
    /\ pc = "done" =>
           LET sources == OfKind(SectionOf(page, "search"), "sources")
           IN /\ Len(sources) = IF IsDict(results["search"]) /\ HasKey(results["search"], "organic")
                                THEN 1 ELSE 0
              /\ \A s \in 1..Len(sources) :
                     /\ Len(sources[s].entries) = Len(TopOrganic(5))
                     /\ \A k \in 1..Len(TopOrganic(5)) :
                            /\ sources[s].entries[k].n = k
                            /\ ShowsField(TopOrganic(5)[k], "title", sources[s].entries[k].title)
                            /\ ShowsField(TopOrganic(5)[k], "link", sources[s].entries[k].link)
                            /\ ShowsField(TopOrganic(5)[k], "snippet", sources[s].entries[k].snippet)

C8_Witness ==
    /\ pc = "done"
    /\ Len(ArrayOf("search")) > 5
    /\ Len(llm_calls[1].search_content) = 5
    /\ Len(OfKind(SectionOf(page, "search"), "sources")) = 1

\* for each vertical, a response with a few items
ShortBody ==
    [a \in Verticals |->
        CHOOSE b \in Bodies(a) : HasKey(b, ArrayKey(a)) /\ Len(Item(b, ArrayKey(a)).val) \in 1..3]

\* the calls of a whole run whose toggles are the model's, in the order of the code
RECURSIVE CallsFrom(_)
CallsFrom(order) ==
    IF order = <<>> THEN <<>>
    ELSE (IF Head(order) = "search" \/ show[Head(order)]
          THEN <<Event("post", Head(order)), Event("response", Head(order))>>
          ELSE <<>>) \o CallsFrom(Tail(order))

SearchCalls == CallsFrom(<<"search", "maps", "images", "videos", "shopping">>)

IsPrefix(s, t) == Len(s) <= Len(t) /\ SubSeq(t, 1, Len(s)) = s

\* the position of a section in the page order
Rank(v) ==
    CASE v = "search" -> 0
      [] v = "maps" -> 1
      [] v = "images" -> 2
      [] v = "videos" -> 3
      [] v = "shopping" -> 4

\* C6: the calls of a run happen one at a time in the order of the code: the
\* web request, then the enabled ones of maps, images, videos, shopping,
\* each answered before the next is sent; the language model is called only
\* after the last response, with a prompt that only the web result
\* determines; the answer and the optional sections are rendered only after
\* the model has returned, the sections in the order maps, images, videos,
\* shopping.
C6_SequentialFixedOrder ==
    /\ \/ IsPrefix(log, SearchCalls)
       \/ log = Append(SearchCalls, Event("llm_call", "search"))
       \/ log = SearchCalls \o <<Event("llm_call", "search"), Event("llm_return", "search")>>
       \/ log = SearchCalls \o <<Event("llm_call", "search"), Event("llm_raise", "search")>>
    /\ Len(llm_calls) = Len(SelectSeq(log, LAMBDA ev : ev.e = "llm_call"))
    /\ Len(posts) = Len(SelectSeq(log, LAMBDA ev : ev.e = "post"))
    /\ llm_calls # <<>> =>
           \A v \in Optional : \A r \in {None, NoArrayKey, ShortBody[v]} :
               Prompt(query, [results EXCEPT ![v] = r]) = llm_calls[1]
    /\ (\E i \in 1..Len(page) : page[i] # AnswerHeading) =>
           log # <<>> /\ log[Len(log)] = Event("llm_return", "search")
    /\ \A i, j \in 1..Len(page) : i < j => Rank(page[i].sec) <= Rank(page[j].sec)

C6_Witness ==
    /\ pc = "done"
    /\ \A v \in Optional : show[v] /\ status[v] = 200 /\ ItemsOf(SectionOf(page, v)) # <<>>
    /\ Len(log) = 12

\* the array key the claims name for each optional vertical
KeyOf(v) == IF v = "maps" THEN "places" ELSE v

\* the entry's source is 'youtube' once trimmed and lower-cased
SourceIsYoutube(video) ==
    HasKey(video, "source") /\ Lower(Strip(Item(video, "source").val)) = Youtube

\* the entry's link contains 'youtube.com/watch?v='
HasWatchLink(video) ==
    HasKey(video, "link") /\ Contains(WatchPattern, Item(video, "link").val)

\* the videos the section is to show: of the first six YouTube entries of
\* the array, those with a watch link
WatchList ==
    LET youtube == SelectSeq(ArrayOf("videos"), SourceIsYoutube)
    IN SelectSeq(SubSeq(youtube, 1, Min(6, Len(youtube))), HasWatchLink)

\* the response of an enabled vertical gives its section nothing to show
NoData(v) ==
    \/ ~IsDict(results[v])
    \/ ~HasKey(results[v], KeyOf(v))
    \/ v = "maps" /\ ArrayOf("maps") = <<>>
    \/ v = "videos" /\ \A i \in 1..Len(ArrayOf("videos")) : ~SourceIsYoutube(ArrayOf("videos")[i])

\* C10: an enabled optional section never shows both result items and its
\* empty-state message; it shows the message exactly when the response is
\* None or lacks the array key, or for maps when places is empty, or for
\* videos when no entry has source 'youtube' (trimmed, case-insensitive);
\* otherwise it shows the first 5 places, the first 10 images, the first 10
\* products, or of the first 6 YouTube entries those with a watch link, in
\* the order of the array.
C10_ItemsOrMessage ==
    pc = "done" =>
        \A v \in Optional :
            show[v] =>
                LET sec == SectionOf(page, v)
                    items == ItemsOf(sec)
                    infos == OfKind(sec, "info")
                    array == ArrayOf(v)
                IN /\ ~(items # <<>> /\ infos # <<>>)
                   /\ Len(infos) = IF NoData(v) THEN 1 ELSE 0
                   /\ ~NoData(v) =>
                          CASE v = "maps" ->
                                   /\ Len(OfKind(sec, "map")) = 1
                                   /\ Len(OfKind(sec, "card")) = Min(5, Len(array))
                                   /\ Len(items) = 1 + Min(5, Len(array))
                                   /\ \A k \in 1..Min(5, Len(array)) :
                                          ShowsField(array[k], "title", OfKind(sec, "card")[k].title)
                            [] v = "images" ->
                                   /\ Len(items) = Min(10, Len(array))
                                   /\ \A k \in 1..Len(items) :
                                          HasKey(array[k], "imageUrl")
                                              => items[k].image = Item(array[k], "imageUrl")
                            [] v = "videos" ->
                                   /\ Len(items) <= 6
                                   /\ Len(items) = Len(WatchList)
                                   /\ \A k \in 1..Len(items) :
                                          /\ items[k].embed_url
                                                 = EmbedUrl(Item(WatchList[k], "link").val)
                                          /\ ShowsField(WatchList[k], "title", items[k].title)
                            [] v = "shopping" ->
                                   /\ Len(items) = Min(10, Len(array))
                                   /\ \A k \in 1..Len(items) :
                                          ShowsField(array[k], "title", items[k].title)

C10_Witness ==
    /\ pc = "done"
    /\ show["videos"] /\ Len(ArrayOf("videos")) > 6
    /\ ~SourceIsYoutube(ArrayOf("videos")[1])
    /\ Len(ItemsOf(SectionOf(page, "videos"))) \in 1..5
    /\ show["maps"] /\ Len(ArrayOf("maps")) > 5
    /\ Len(OfKind(SectionOf(page, "maps"), "card")) = 5
    /\ show["images"] /\ ArrayOf("images") = <<>> /\ IsDict(results["images"])
    /\ HasKey(results["images"], "images")

\* text is the fixed default when the field is absent from the item
DefaultsTo(item, field, text, default) == ~HasKey(item, field) => text = default

\* the lookups whose default is a string: every rendered text of an absent
\* field is the fixed default string of that lookup
StringDefaults ==
    /\ \A k \in 1..Len(TopOrganic(5)) :
           LET result == TopOrganic(5)[k]
               entry == llm_calls[1].search_content[k]
           IN /\ DefaultsTo(result, "title", entry.Title, NoTitle)
              /\ DefaultsTo(result, "link", entry.Link, NoLink)
              /\ DefaultsTo(result, "snippet", entry.Snippet, NoSnippet)
    /\ \A s \in 1..Len(OfKind(SectionOf(page, "search"), "sources")) :
           \A k \in 1..Len(TopOrganic(5)) :
               LET result == TopOrganic(5)[k]
                   entry == OfKind(SectionOf(page, "search"), "sources")[s].entries[k]
               IN /\ DefaultsTo(result, "title", entry.title, NoTitle)
                  /\ DefaultsTo(result, "link", entry.link, Hash)
                  /\ DefaultsTo(result, "snippet", entry.snippet, NoSnippet)
    /\ LET cards == OfKind(SectionOf(page, "maps"), "card")
       IN \A k \in 1..Len(cards) :
              LET place == ArrayOf("maps")[k]
              IN /\ DefaultsTo(place, "title", cards[k].title, UnknownLocation)
                 /\ DefaultsTo(place, "address", cards[k].address, NoAddress)
                 /\ DefaultsTo(place, "rating", cards[k].rating, NotApplicable)
                 /\ DefaultsTo(place, "ratingCount", cards[k].rating_count, ZeroText)
                 /\ DefaultsTo(place, "phoneNumber", cards[k].phone, NotAvailable)
                 /\ DefaultsTo(place, "website", cards[k].website, Hash)
                 /\ DefaultsTo(place, "type", cards[k].place_type, LocationText)
    /\ \A m \in 1..Len(OfKind(SectionOf(page, "maps"), "map")) :
           LET markers == OfKind(SectionOf(page, "maps"), "map")[m].markers
               marked == SelectSeq(ArrayOf("maps"),
                             LAMBDA place : HasKey(place, "latitude") /\ HasKey(place, "longitude"))
           IN Len(markers) <= Len(marked) /\
              \A k \in 1..Len(markers) :
                  /\ DefaultsTo(marked[k], "title", markers[k].popup.title, UnknownLocation)
                  /\ DefaultsTo(marked[k], "title", markers[k].tooltip, PyStr(UnknownLocation))
                  /\ DefaultsTo(marked[k], "address", markers[k].popup.address, NoAddress)
                  /\ DefaultsTo(marked[k], "rating", markers[k].popup.rating, NotApplicable)
    /\ LET images == OfKind(SectionOf(page, "images"), "image")
       IN \A k \in 1..Len(images) :
              /\ DefaultsTo(ArrayOf("images")[k], "imageUrl", images[k].image, PyStr(<<>>))
              /\ DefaultsTo(ArrayOf("images")[k], "title", images[k].caption, <<>>)
    /\ LET videos == OfKind(SectionOf(page, "videos"), "video")
       IN /\ Len(videos) = Len(WatchList)
          /\ \A k \in 1..Len(videos) :
                 /\ DefaultsTo(WatchList[k], "title", videos[k].title, UnknownVideo)
                 /\ DefaultsTo(WatchList[k], "channel", videos[k].channel, UnknownChannel)
                 /\ DefaultsTo(WatchList[k], "duration", videos[k].duration, UnknownDuration)
    /\ LET products == OfKind(SectionOf(page, "shopping"), "product")
       IN \A k \in 1..Len(products) :
              LET product == ArrayOf("shopping")[k]
              IN /\ DefaultsTo(product, "title", products[k].title, UnknownProduct)
                 /\ DefaultsTo(product, "link", products[k].link, Hash)
                 /\ DefaultsTo(product, "price", products[k].price, PriceNotAvailable)
                 /\ DefaultsTo(product, "source", products[k].source, UnknownSource)
                 /\ DefaultsTo(product, "imageUrl", products[k].image_url, <<>>)
                 /\ DefaultsTo(product, "rating", products[k].rating, NoRating)

\* C5 as stated: every lookup of an absent field, those of latitude and
\* longitude included, yields a fixed default string, and no render fails.
C5_EveryDefaultIsAString ==
    /\ pc # "render_raised"
    /\ pc = "done" =>
           /\ StringDefaults
           /\ \A m \in 1..Len(OfKind(SectionOf(page, "maps"), "map")) :
                  LET center == OfKind(SectionOf(page, "maps"), "map")[m].center
                      first_place == ArrayOf("maps")[1]
                  IN /\ ~HasKey(first_place, "latitude") => IsStr(center[1])
                     /\ ~HasKey(first_place, "longitude") => IsStr(center[2])

\* C5, amended: every lookup of an absent field yields a fixed default and
\* no render fails; the default is a fixed string except for latitude and
\* longitude, where it is the number 0 for the map centre and None for a
\* marker (the place then gets no marker), and for openingHours, where it
\* is the empty dict, shown as the fixed text 'Hours not available'.
C5_FixedDefaults ==
    /\ pc # "render_raised"
    /\ pc = "done" =>
           /\ StringDefaults
           /\ \A m \in 1..Len(OfKind(SectionOf(page, "maps"), "map")) :
                  LET map == OfKind(SectionOf(page, "maps"), "map")[m]
                      places == ArrayOf("maps")
                  IN /\ ~HasKey(places[1], "latitude") => map.center[1] = PyInt(0)
                     /\ ~HasKey(places[1], "longitude") => map.center[2] = PyInt(0)
                     /\ Len(map.markers) = Len(SelectSeq(places,
                            LAMBDA place : /\ HasKey(place, "latitude")
                                           /\ HasKey(place, "longitude")
                                           /\ Truthy(Item(place, "latitude"))
                                           /\ Truthy(Item(place, "longitude"))))
           /\ LET cards == OfKind(SectionOf(page, "maps"), "card")
              IN \A k \in 1..Len(cards) :
                     DefaultsTo(ArrayOf("maps")[k], "openingHours", cards[k].hours_text,
                                HoursNotAvailable)

C5_Witness ==
    /\ pc = "done"
    /\ show["maps"] /\ Len(ArrayOf("maps")) > 0 /\ ArrayOf("maps")[1] = EmptyDict
    /\ OfKind(SectionOf(page, "maps"), "map")[1].center = <<PyInt(0), PyInt(0)>>
    /\ show["shopping"] /\ Len(OfKind(SectionOf(page, "shopping"), "product")) > 2
    /\ show["videos"] /\ Len(OfKind(SectionOf(page, "videos"), "video")) > 1
    /\ show["images"] /\ Len(OfKind(SectionOf(page, "images"), "image")) > 2
    /\ Len(TopOrganic(5)) > 2

\* the toggles and responses vertical a is varied over: switched off (its
\* result is None then), answered without the array key, answered with
\* other items; the web search is never switched off, its result None is
\* among the runs at hand
Alternatives(a) ==
    {[on |-> TRUE, result |-> r] : r \in {NoArrayKey, ShortBody[a]}}
    \cup (IF a \in Optional THEN {[on |-> FALSE, result |-> None]}
                           ELSE {[on |-> TRUE, result |-> None]})

\* the page of the run that differs from the run at hand in vertical a only
PageWith(a, alt) ==
    LET show2 == [v \in Optional |-> IF v = a THEN alt.on ELSE show[v]]
        containers2 == [v \in Optional |-> IF show2[v] THEN Container ELSE None]
        results2 == [results EXCEPT ![a] = alt.result]
        content == OfKind(page, "answer")[1].content
    IN <<AnswerHeading>> \o AfterAnswer(content, show2, containers2, results2).out

\* the elements of a page outside section a: the other sections, in order
Without(p, a) == SelectSeq(p, LAMBDA el : el.sec # a)

\* C4: what a section shows depends on its own toggle and response only:
\* a run that differs from the run at hand in another vertical A (A's toggle,
\* A's response None, A's array key removed, or other items) renders every
\* section B other than A as the run at hand does.
C4_SectionsIndependent ==
    pc = "done" =>
        \A a \in Verticals :
            LET mine == Without(page, a)
            IN \A alt \in Alternatives(a) : Without(PageWith(a, alt), a) = mine

C4_Witness ==
    /\ pc = "done"
    /\ \A v \in Optional : show[v]
    /\ results["shopping"] = NoArrayKey
    /\ Len(OfKind(SectionOf(page, "videos"), "video")) > 2
    /\ Len(OfKind(SectionOf(page, "maps"), "card")) > 2
====
